---- MODULE Spec2Model ----
(***************************************************************************)
(* ASolchen/pycip: an EtherNet/IP adapter.  The repository holds two      *)
(* drafts of the adapter:                                                  *)
(*   "Adapter"     adapter.py + ethernetip.py + cip_handler.py (main.py)   *)
(*   "EIP_Adapter" eip_adapter.py                                          *)
(* Both are modelled; impl says which one a behaviour runs.  The TCP       *)
(* session thread handles one request per step (the whole handler), each  *)
(* cyclic producer thread (_udp_sender) moves one statement per step.      *)
(***************************************************************************)
EXTENDS Integers, Sequences, FiniteSets, TLC

(* ---------------------------------------------------------------- bounds *)
MaxThreads == 2
MaxPkts == 4
MaxUdpIn == 1
MaxRegister == 2
MaxRead == 28

(* ------------------------------------------------------------- constants *)
EncapMask == 268435455
CipSeqMask == 65535
O_T_CONNECTION_ID == 2347027
UDP_PORT == 2222

CMD_LIST_SERVICES == 4
CMD_LIST_IDENTITY == 99
CMD_LIST_INTERFACES == 100
CMD_REGISTER_SESSION == 101
CMD_UNREGISTER_SESSION == 102
CMD_SEND_RR_DATA == 111
CMD_SEND_UNIT_DATA == 112

SVC_FORWARD_OPEN == 84
SVC_FORWARD_CLOSE == 78
SVC_READ_ATTRIBUTE_SINGLE == 14
SVC_WRITE_ATTRIBUTE_SINGLE == 16
REPLY_BIT == 128

None == -1

\* A command code outside eip_commands and a service code outside
\* rr_service_handlers / the services EIP_Adapter.handle_send_rr_data names.
CMD_UNKNOWN ==
    CHOOSE c \in 0..255 :
        c \notin {CMD_LIST_SERVICES, CMD_LIST_IDENTITY, CMD_LIST_INTERFACES,
                  CMD_REGISTER_SESSION, CMD_UNREGISTER_SESSION, CMD_SEND_RR_DATA,
                  CMD_SEND_UNIT_DATA}
SVC_UNKNOWN ==
    CHOOSE s \in 1..127 :
        s \notin {SVC_FORWARD_OPEN, SVC_FORWARD_CLOSE, SVC_READ_ATTRIBUTE_SINGLE,
                  SVC_WRITE_ATTRIBUTE_SINGLE}

VARIABLES
    impl,                  \* which draft runs: "Adapter" or "EIP_Adapter"
    main_pc,               \* session thread: "serving", "eof" (serving a connection
                           \* the scanner has closed), "closing", "joining", "closed"
    session_handle,        \* EthernetIP.session_handle / EIP_Adapter.session_handle
    connection_id,         \* Adapter.connection_id
    remote_connection_id,  \* Adapter.remote_connection_id
    udp_running,           \* .udp_running
    udp_socket,            \* .udp_socket: None or the id of the socket object
    udp_thread,            \* .udp_thread: None or the id of the thread object
    open_sockets,          \* ids of the UDP socket objects not yet closed
    cip_sequence_count,    \* Adapter.cip_sequence_count
    udp_sequence_counter,  \* EIP_Adapter.udp_sequence_counter
    threads,               \* producer threads: id -> [pc, rpi, connection_id, data]
    nthreads,              \* number of producer threads started so far
    udp_in,                \* datagrams of the scanner waiting on the adapter's UDP port
    tcp_out,               \* the last request handled and the reply sent for it
    udp_out,               \* the cyclic UDP packets emitted (see NoLog)
    npkts,                 \* number of single sends of the producers so far
    assigned,              \* the handle the last Register Session reply carried (None: none yet)
    after_close,           \* UDP packets emitted since the last Forward Close reply
                           \* (None: no Forward Close since the last Forward Open; 2: two or more)
    codec,                 \* a frame on its way through EIP_Header: the bytes received,
                           \* the header object parsed from them, the bytes written back
    tcp_in                 \* the TCP stream of the scanner: the frame it sent, the bytes
                           \* of it recv has not returned yet, what the last recv
                           \* returned, and the number of recv calls that returned

vars == <<impl, main_pc, session_handle, connection_id, remote_connection_id,
          udp_running, udp_socket, udp_thread, open_sockets, cip_sequence_count,
          udp_sequence_counter, threads, nthreads, udp_in, tcp_out, udp_out,
          npkts, assigned, after_close, codec, tcp_in>>

Tids == 1..MaxThreads

(* --------------------------------------------------------------- inputs *)
Handles == 0..2
Contexts == {0, 7}
OptionValues == {0, 1}
\* Forward Open requests: <<T->O connection id, T->O RPI>>; the O->T RPI is
\* 10000, the O->T connection id the scanner proposes 33, and the connection
\* serial number, vendor id and originator serial number are as FORequests says.
ForwardOpens == {<<11, 10000>>, <<22, 20000>>}
EipCmds == {CMD_LIST_SERVICES, CMD_LIST_IDENTITY, CMD_LIST_INTERFACES,
            CMD_REGISTER_SESSION, CMD_UNREGISTER_SESSION, CMD_SEND_RR_DATA,
            CMD_SEND_UNIT_DATA, CMD_UNKNOWN}
Services == {SVC_FORWARD_OPEN, SVC_FORWARD_CLOSE, SVC_READ_ATTRIBUTE_SINGLE,
             SVC_WRITE_ATTRIBUTE_SINGLE, SVC_UNKNOWN}

\* An ENIP frame as the parsers of the two drafts see it.  `padded` says
\* whether the payload is at least sizeof(Send_RR_Data_Request) bytes long.
Header(cmd, h, ctx, opt) ==
    [cmd |-> cmd, session_handle |-> h, sender_context |-> ctx, options |-> opt]

PlainRequests ==
    { [hdr |-> Header(c, h, x, o), padded |-> FALSE, service |-> 0,
       t_o_connection_id |-> 0, o_t_connection_id |-> 0, o_t_rpi |-> 0, t_o_rpi |-> 0,
       connection_serial_number |-> 0, originator_vendor_id |-> 0,
       originator_serial_number |-> 0] :
      c \in EipCmds \ {CMD_SEND_RR_DATA}, h \in Handles, x \in Contexts, o \in OptionValues }

RRRequests ==
    { [hdr |-> Header(CMD_SEND_RR_DATA, h, x, o), padded |-> p, service |-> s,
       t_o_connection_id |-> 0, o_t_connection_id |-> 0, o_t_rpi |-> 0, t_o_rpi |-> 0,
       connection_serial_number |-> 0, originator_vendor_id |-> 0,
       originator_serial_number |-> 0] :
      h \in Handles, x \in Contexts, o \in OptionValues, p \in BOOLEAN,
      s \in Services \ {SVC_FORWARD_OPEN} }

FORequests ==
    { [hdr |-> Header(CMD_SEND_RR_DATA, h, x, o), padded |-> p, service |-> SVC_FORWARD_OPEN,
       t_o_connection_id |-> v[1], o_t_connection_id |-> 33, o_t_rpi |-> 10000,
       t_o_rpi |-> v[2], connection_serial_number |-> 4660 + v[1],
       originator_vendor_id |-> 333, originator_serial_number |-> 66000 + v[1]] :
      h \in Handles, x \in Contexts, o \in OptionValues, p \in BOOLEAN,
      v \in ForwardOpens }

Requests == PlainRequests \cup RRRequests \cup FORequests

(* -------------------------------------------------------------- records *)
\* A cyclic UDP packet: Sequenced Address Item (connection id, encap
\* sequence count, both u32) and the CIP sequence count (u16) of the Connected
\* Data Item.  The u32 fields hold their values unreduced: every value of this
\* model stays below 2^31.
Packet(cid, encap, cip) == [connection_id |-> cid, encap_seq |-> encap, cip_seq |-> cip]
NoPacket == Packet(None, None, None)

\* CIP_IO_Reply(connection_id, sequence_count, data) as adapter.py calls it.
CIP_IO_Reply(cid, seq) == Packet(cid, seq, seq % (CipSeqMask + 1))

\* A producer thread: where it is in _udp_sender, its arguments (rpi, and for
\* EIP_Adapter connection_id), the packet it has built, and opened_with, the
\* T->O connection id of the Forward Open that started it.
NoThread == [pc |-> "unborn", rpi |-> 0, connection_id |-> None, data |-> NoPacket,
             opened_with |-> None]
\* The cyclic packets emitted: the last packet, the thread that sent it, the
\* connection it belongs to (the number of producers started when it left),
\* and the encap sequence counts of that connection's first packet and of the
\* packet before the last one (None if the last packet is the first).
NoLog == [conn |-> 0, by |-> None, first |-> None, prev |-> None, last |-> NoPacket]

\* No Forward Open response in a reply.
NoForwardOpenResponse ==
    [o_t_connection_id |-> None, t_o_connection_id |-> None,
     connection_serial_number |-> None, originator_vendor_id |-> None,
     originator_serial_number |-> None, o_t_rpi |-> None, t_o_rpi |-> None]

\* An ENIP reply: the header fields; command_data, the bytes under the header
\* of a reply to any command but Send RR Data; and, read from the bytes of a
\* Send RR Data reply, the CIP reply it carries (if any): its service and
\* general status, the items of the Common Packet Format list around it, the
\* Forward Open response in it, and sockaddr, the bytes of its Socket Address
\* Info item.
Reply(cmd, h, st, ctx, opt, svc, gs) ==
    [cmd |-> cmd, session_handle |-> h, status |-> st, sender_context |-> ctx,
     options |-> opt, command_data |-> <<>>, cip_service |-> svc,
     general_status |-> gs, items |-> <<>>, fo |-> NoForwardOpenResponse,
     sockaddr |-> <<>>]
WithData(r, data) == [r EXCEPT !.command_data = data]
NoReply == Reply(None, None, None, None, None, None, None)
NoRequest ==
    [hdr |-> Header(None, None, None, None), padded |-> FALSE, service |-> None,
     t_o_connection_id |-> None, o_t_connection_id |-> None, o_t_rpi |-> None,
     t_o_rpi |-> None, connection_serial_number |-> None,
     originator_vendor_id |-> None, originator_serial_number |-> None]

(* ------------------------------------------------- the Forward Open wire *)
\* Little-endian encodings of a u16 and a u32, and the reads a packed ctypes
\* structure makes of a c_uint16 / c_uint32 field at byte offset off of the
\* buffer it is laid over (off counts from 0).
U16LE(x) == <<x % 256, (x \div 256) % 256>>
U32LE(x) == <<x % 256, (x \div 256) % 256, (x \div 65536) % 256, (x \div 16777216) % 256>>
ByteAt(buf, off) == IF off + 1 <= Len(buf) THEN buf[off + 1] ELSE 0
U16At(buf, off) == ByteAt(buf, off) + 256 * ByteAt(buf, off + 1)
U32At(buf, off) == U16At(buf, off) + 65536 * U16At(buf, off + 2)

\* The CIP message of a Send RR Data request: service, request path size (2
\* words), the path 20 06 24 01 to the Connection Manager, and the service
\* data.  For a Forward Open: priority/tick 0x0A, timeout ticks, the two
\* connection ids, connection serial number, vendor id, originator serial
\* number, timeout multiplier and 3 reserved bytes, O->T RPI and network
\* parameters, T->O RPI and network parameters, transport class/trigger,
\* connection path size (4 words) and the connection path.  For a Forward
\* Close: priority/tick, timeout ticks, the connection triad, path size,
\* reserved byte and path.  For the other services: two bytes of data.
ServiceData(q) ==
    IF q.service = SVC_FORWARD_OPEN
    THEN <<10, 14>>
         \o U32LE(q.o_t_connection_id) \o U32LE(q.t_o_connection_id)
         \o U16LE(q.connection_serial_number) \o U16LE(q.originator_vendor_id)
         \o U32LE(q.originator_serial_number) \o <<1, 0, 0, 0>>
         \o U32LE(q.o_t_rpi) \o U16LE(18434) \o U32LE(q.t_o_rpi) \o U16LE(18434)
         \o <<1, 4>> \o <<32, 4, 36, 1, 44, 101, 44, 100>>
    ELSE IF q.service = SVC_FORWARD_CLOSE
    THEN <<10, 14>>
         \o U16LE(q.connection_serial_number) \o U16LE(q.originator_vendor_id)
         \o U32LE(q.originator_serial_number) \o <<2, 0>> \o <<32, 4, 36, 1>>
    ELSE <<0, 0>>

CipData(q) == <<q.service, 2, 32, 6, 36, 1>> \o ServiceData(q)

\* ForwardOpenRequest laid over buf (cip_service_structs.py): the item header
\* (type, length) at 0, service at 4, the path at 5..9, priority/tick at 10,
\* timeout ticks at 11, and then the fields read here.
ForwardOpenRequest(buf) ==
    [o_t_connection_id |-> U32At(buf, 12),
     t_o_connection_id |-> U32At(buf, 16),
     connection_serial_number |-> U16At(buf, 20),
     originator_vendor_id |-> U16At(buf, 22),
     originator_serial_number |-> U32At(buf, 24),
     o_t_rpi |-> U32At(buf, 32),
     t_o_rpi |-> U32At(buf, 38)]

\* CIP_Handler.handle_forward_open: ForwardOpenRequest(item.to_bytes()), the
\* Unconnected Data Item with its type and length in front of the CIP message.
AdapterForwardOpenRequest(q) ==
    ForwardOpenRequest(<<178, 0>> \o U16LE(Len(CipData(q))) \o CipData(q))

\* EIP_Adapter.handle_send_rr_data: the offset of the "service specific data"
\* it hands to the handler: service and path size (2), the path, one byte it
\* takes for a general status, and twice the value of that byte.
service_specific_data_offset(cip_data) ==
    LET fixed_cip_offset == 2
        path_size == ByteAt(cip_data, 1) * 2
        general_status_offset == fixed_cip_offset + path_size
        additional_status_offset == general_status_offset + 1
        additional_status_size == ByteAt(cip_data, general_status_offset) * 2
    IN  additional_status_offset + additional_status_size

\* EIP_Adapter.handle_forward_open: ForwardOpenRequest laid over
\* cip_data[service_specific_data_offset:], zero-padded to the structure's size.
EIPForwardOpenRequest(q) ==
    LET cip_data == CipData(q)
        off == service_specific_data_offset(cip_data)
    IN  ForwardOpenRequest(IF off >= Len(cip_data) THEN <<>>
                           ELSE SubSeq(cip_data, off + 1, Len(cip_data)))

\* ForwardOpenResponse as the handlers fill it.
ForwardOpenResponse(ot, r) ==
    [o_t_connection_id |-> ot,
     t_o_connection_id |-> r.t_o_connection_id,
     connection_serial_number |-> r.connection_serial_number,
     originator_vendor_id |-> r.originator_vendor_id,
     originator_serial_number |-> r.originator_serial_number,
     o_t_rpi |-> r.o_t_rpi,
     t_o_rpi |-> r.t_o_rpi]

(* ------------------------------------------------ the Send RR Data reply *)
\* n zero bytes, and the big-endian encodings SocketAddressInfo stores.
Zeros(n) == [i \in 1..n |-> 0]
\* A u16 stored low byte first.
U16LowFirst(x) == <<x % 256, (x \div 256) % 256>>
U16BE(x) == <<(x \div 256) % 256, x % 256>>
U32BE(x) == <<(x \div 16777216) % 256, (x \div 65536) % 256, (x \div 256) % 256, x % 256>>

\* bytes(ForwardOpenResponse): service 0x54 | 0x80 (set by __init__), 3 reserved
\* bytes, the fields, application reply size and a reserved byte.
ForwardOpenResponseBytes(r) ==
    <<SVC_FORWARD_OPEN + REPLY_BIT, 0, 0, 0>>
    \o U32LE(r.o_t_connection_id) \o U32LE(r.t_o_connection_id)
    \o U16LE(r.connection_serial_number) \o U16LE(r.originator_vendor_id)
    \o U32LE(r.originator_serial_number)
    \o U32LE(r.o_t_rpi) \o U32LE(r.t_o_rpi) \o <<0, 0>>

\* The items of cip_item_structs.py, as to_bytes() writes them.
NullAddressItem == <<0, 0>> \o U16LE(0)
UnconnectedDataItem(data_bytes) == <<178, 0>> \o U16LE(Len(data_bytes)) \o data_bytes
SocketAddressInfo(family, port, address) ==
    <<0, 128>> \o U16LE(16) \o U16BE(family) \o U16BE(port) \o U32BE(address) \o Zeros(8)

\* Send_RR_Data.to_bytes() of the items added to a reply: interface handle,
\* timeout, item count, and the items one after the other.
Send_RR_Data(items) ==
    LET RECURSIVE Cat(_)
        Cat(ss) == IF ss = <<>> THEN <<>> ELSE Head(ss) \o Cat(Tail(ss))
    IN  U32LE(0) \o U16LE(0) \o U16LE(Len(items)) \o Cat(items)

\* bytes(CIP_Message): service, reserved, general status, additional status
\* size; handle_forward_close adds no item to it.
CIP_Message(service, general_status) == <<service, 0, general_status, 0>>

\* bytes(Send_RR_Data_Reply) (eip_structs.py) as EIP_Adapter.handle_send_rr_data
\* fills it: interface handle and timeout of the request, item count 2, the
\* Null Address Item, type and length of the Unconnected Data Item, and the
\* rest of the structure, which it never assigns: service, reserved,
\* path_size, path_class, path_instance and 30 bytes of cip_data.
Send_RR_Data_Reply(item1_len) ==
    U32LE(0) \o U16LE(0) \o U16LE(2)
    \o U16LE(0) \o U16LE(0)
    \o U16LE(178) \o U16LE(item1_len)
    \o <<0, 0, 0, 0>> \o U16LE(0) \o Zeros(30)

\* bytes(CIP_Response) with the three fields handle_send_rr_data assigns, and
\* CIP_Response.align_to_word.
CIP_Response(service, general_status, additional_status_size) ==
    <<service, 0, general_status, additional_status_size>>
align_to_word(data) == IF Len(data) % 2 = 1 THEN data \o <<0>> ELSE data

\* bytes(EIP_Header): cmd, len, session_handle, status, sender_context, options.
EIP_Header(cmd, len, h, st, ctx, opt) ==
    U16LE(cmd) \o U16LE(len) \o U32LE(h) \o U32LE(st) \o U32LE(ctx) \o Zeros(4) \o U32LE(opt)

\* What the handlers of EIP_Adapter return for the service data they get.
EIPServiceResponse(q, data) ==
    IF q.service = SVC_FORWARD_OPEN
    THEN LET req == ForwardOpenRequest(data)
         IN  ForwardOpenResponseBytes(ForwardOpenResponse(req.o_t_connection_id, req))
    ELSE IF q.service = SVC_FORWARD_CLOSE THEN <<78, 0, 0, 0>>
    ELSE IF q.service = SVC_READ_ATTRIBUTE_SINGLE THEN <<14, 0, 0, 0, 171, 205>>
    ELSE IF q.service = SVC_WRITE_ATTRIBUTE_SINGLE THEN <<16, 0, 0, 0>>
    ELSE \* unsupported_service: a whole ENIP frame around a 3-byte CIP error
         LET service_code == ByteAt(data, 0)
         IN  EIP_Header(CMD_SEND_RR_DATA, 3, q.hdr.session_handle, 0,
                        q.hdr.sender_context, 0)
             \o <<(service_code % REPLY_BIT) + REPLY_BIT, 8, 0>>

\* command_response of EIP_Adapter.handle_send_rr_data: the Send_RR_Data_Reply
\* structure, then the CIP response: CIP_Response, the request's bytes from the
\* path up to the service data, and what the handler returned.  cip_data is
\* what the handler finds behind the Send_RR_Data_Request structure of a
\* padded request: the request's CIP message.
EIPCommandResponse(q) ==
    LET cip_data == CipData(q)
        off == service_specific_data_offset(cip_data)
        data == IF off >= Len(cip_data) THEN <<>>
                ELSE SubSeq(cip_data, off + 1, Len(cip_data))
        echoed == SubSeq(cip_data, 3, IF off <= Len(cip_data) THEN off ELSE Len(cip_data))
        cip_response_data ==
            align_to_word(CIP_Response(q.service + REPLY_BIT, 0, 0)
                          \o echoed \o EIPServiceResponse(q, data))
    IN  Send_RR_Data_Reply(Len(cip_response_data)) \o cip_response_data

\* b'Communications'
Communications == <<67, 111, 109, 109, 117, 110, 105, 99, 97, 116, 105, 111, 110, 115>>

\* EthernetIP.handle_list_services: service_data, four byte literals.
AdapterListServicesData ==
    <<1, 0>> \o <<0, 1>> \o <<20, 0, 1, 0, 32, 1>> \o Communications \o <<0, 0>>

\* A service name left as it is.
PadNever(name) == name

\* EIP_Adapter.handle_list_services: a padding byte if the length is odd.
PadToEven(name) == IF Len(name) % 2 # 0 THEN name \o <<0>> ELSE name

\* EIP_Adapter.handle_list_services: cip_response.
EIPListServicesData ==
    LET item_count == <<1, 0>>
        type_id == <<0, 1>>
        encapsulation_version == <<1, 0>>
        capability_flags == <<32, 1>>
        service_name == PadToEven(Communications \o <<0>>)
        service_data == encapsulation_version \o capability_flags \o service_name
        service_length == U16LE(Len(service_data))
    IN  item_count \o type_id \o service_length \o service_data

\* The payload of both Register Session replies: protocol version 1, option
\* flags 0.
RegisterSessionData == <<1, 0>> \o <<0, 0>>

\* SocketAddressInfo's getters: the bytes of a field read as a big-endian
\* number (its setters store U16BE / U32BE of the value in the structure).
RECURSIVE sin_get(_)
sin_get(mem) == IF mem = <<>> THEN 0 ELSE sin_get(SubSeq(mem, 1, Len(mem) - 1)) * 256 + mem[Len(mem)]

\* How the scanner reads a Send RR Data reply: interface handle (4), timeout
\* (2), item count (2), then the items, each type id (2), length (2), payload.
RECURSIVE CpfItems(_, _, _)
CpfItems(buf, off, n) ==
    IF n = 0 \/ off + 4 > Len(buf) THEN <<>>
    ELSE <<[type_id |-> U16At(buf, off), at |-> off + 4, length |-> U16At(buf, off + 2)]>>
         \o CpfItems(buf, off + 4 + U16At(buf, off + 2), n - 1)

ItemName(type_id) ==
    CASE type_id = 0 -> "NullAddress"
      [] type_id = 178 -> "UnconnectedData"
      [] type_id = 32768 -> "SocketAddressInfo"
      [] OTHER -> "Unknown"

\* The reply r with what the scanner reads in its payload: the item list, the
\* service and general status of the CIP reply in the Unconnected Data Item
\* (None if there is none), and, in the reply to a Forward Open, the fields
\* after the 4-byte CIP reply header.
WireReply(r, q, payload) ==
    LET items == IF Len(payload) < 8 THEN <<>>
                 ELSE CpfItems(payload, 8, U16At(payload, 6))
        ud == {i \in 1..Len(items) : items[i].type_id = 178 /\ items[i].length >= 4}
        at == IF ud = {} THEN 0 ELSE items[CHOOSE i \in ud : \A j \in ud : i <= j].at
        sa == {i \in 1..Len(items) : items[i].type_id = 32768}
    IN  [r EXCEPT
           !.sockaddr = IF sa = {} THEN <<>>
                        ELSE LET it == items[CHOOSE i \in sa : \A j \in sa : i <= j]
                             IN  SubSeq(payload, it.at - 3, it.at + it.length),
           !.items = [i \in 1..Len(items) |-> ItemName(items[i].type_id)],
           !.cip_service = IF ud = {} THEN None ELSE ByteAt(payload, at),
           !.general_status = IF ud = {} THEN None ELSE ByteAt(payload, at + 2),
           !.fo = IF ud = {} \/ q.service # SVC_FORWARD_OPEN THEN NoForwardOpenResponse
                  ELSE [o_t_connection_id |-> U32At(payload, at + 4),
                        t_o_connection_id |-> U32At(payload, at + 8),
                        connection_serial_number |-> U16At(payload, at + 12),
                        originator_vendor_id |-> U16At(payload, at + 14),
                        originator_serial_number |-> U32At(payload, at + 16),
                        o_t_rpi |-> U32At(payload, at + 20),
                        t_o_rpi |-> U32At(payload, at + 24)]]

\* What became of the last request: "replied" (one send_data), "silent"
\* (handled, nothing sent) or "raised" (the handler raised an exception).
Outcome(q, how, r) == [req |-> q, outcome |-> how, reply |-> r]

(* ----------------------------------------------- the ENIP header codec *)
\* A c_uint64 field is held as its two 32-bit halves; every c_uint32 of this
\* model stays below 2^31.
U64At(buf, off) == [lo |-> U32At(buf, off), hi |-> U32At(buf, off + 4)]
\* A u64 written as its low half and four zero bytes.
U64LowHalf(x) == U32LE(x.lo) \o Zeros(4)
U64LE(x) == U32LE(x.lo) \o U32LE(x.hi)

\* EIP_Header.from_buffer_copy(data[:24]): the six fields of the packed
\* little-endian structure.
EIP_Header_from_buffer_copy(data) ==
    LET buf == SubSeq(data, 1, 24)
    IN  [cmd |-> U16At(buf, 0), len |-> U16At(buf, 2),
         session_handle |-> U32At(buf, 4), status |-> U32At(buf, 8),
         sender_context |-> U64At(buf, 12), options |-> U32At(buf, 20)]

\* bytes(eip_header)
EIP_Header_bytes(h) ==
    U16LE(h.cmd) \o U16LE(h.len) \o U32LE(h.session_handle) \o U32LE(h.status)
    \o U64LE(h.sender_context) \o U32LE(h.options)

\* The frames fed to the codec: a 24-byte header, each field drawn from a few
\* byte patterns, whose length field counts the payload that follows it.
CmdBytes == {<<4, 0>>, <<111, 0>>, <<255, 255>>}
U32Bytes == {<<0, 0, 0, 0>>, <<4, 3, 2, 1>>, <<255, 255, 255, 127>>}
StatusBytes == {<<0, 0, 0, 0>>, <<1, 0, 0, 0>>}
ContextBytes == {Zeros(8), <<7, 0, 0, 0, 0, 0, 0, 0>>, <<8, 7, 6, 5, 4, 3, 2, 1>>}
OptionBytes == {<<0, 0, 0, 0>>, <<1, 0, 0, 127>>}
Payloads == {<<>>, <<1, 0, 0, 0>>, Zeros(258)}
Frames ==
    { c \o <<Len(p) % 256, Len(p) \div 256>> \o h \o st \o x \o o \o p :
        c \in CmdBytes, h \in U32Bytes, st \in StatusBytes, x \in ContextBytes,
        o \in OptionBytes, p \in Payloads }

NoHeader ==
    [cmd |-> None, len |-> None, session_handle |-> None, status |-> None,
     sender_context |-> None, options |-> None]
Codec(pc, data, h, out) == [pc |-> pc, data |-> data, eip_header |-> h, out |-> out]
NoCodec == Codec("idle", <<>>, NoHeader, <<>>)

\* The TCP stream: frame is what the scanner wrote, bytes the part of it that
\* recv has not returned yet, data what the last recv returned.
Stream(frame, bytes, data, reads) ==
    [frame |-> frame, bytes |-> bytes, data |-> data, reads |-> reads]
NoStream == Stream(<<>>, <<>>, <<>>, 0)

Started ==
    /\ impl \in {"Adapter", "EIP_Adapter"}
    /\ main_pc = "serving"
    /\ session_handle = IF impl = "Adapter" THEN 0 ELSE 1
    /\ connection_id = None
    /\ remote_connection_id = None
    /\ udp_running = FALSE
    /\ udp_socket = None
    /\ udp_thread = None
    /\ open_sockets = {}
    /\ cip_sequence_count = 1
    /\ udp_sequence_counter = 1
    /\ threads = [t \in Tids |-> NoThread]
    /\ nthreads = 0
    /\ udp_in = 0
    /\ tcp_out = Outcome(NoRequest, "none", NoReply)
    /\ udp_out = NoLog
    /\ npkts = 0
    /\ assigned = None
    /\ after_close = None

Init == Started /\ codec = NoCodec /\ tcp_in = NoStream

(* ------------------------------------------------ the cyclic producers *)
\* The packet leaves the adapter: the log of thread t and the counters of
\* emitted packets.
Emit(t, p) ==
    /\ udp_out' = IF udp_out.conn = nthreads
                  THEN [udp_out EXCEPT !.by = t, !.prev = udp_out.last.encap_seq,
                                       !.last = p]
                  ELSE [conn |-> nthreads, by |-> t, first |-> p.encap_seq,
                        prev |-> None, last |-> p]
    /\ npkts' = npkts + 1
    /\ after_close' = IF after_close = None THEN None
                      ELSE IF after_close < 2 THEN after_close + 1 ELSE 2

SetPc(t, pc) == threads' = [threads EXCEPT ![t].pc = pc]

\* Adapter.stop_udp
stop_udp ==
    /\ udp_running' = FALSE
    /\ open_sockets' = IF udp_socket # None THEN open_sockets \ {udp_socket}
                       ELSE open_sockets

\* Adapter._udp_sender: `while self.udp_running` on entry ("check") and after
\* the except clause ("recheck").
AdapterUdpCheck(t) ==
    /\ impl = "Adapter" /\ threads[t].pc \in {"check", "recheck"}
    /\ SetPc(t, IF udp_running THEN "recv" ELSE "done")
    /\ UNCHANGED <<impl, codec, tcp_in, assigned, main_pc, session_handle, connection_id, remote_connection_id,
                   udp_running, udp_socket, udp_thread, open_sockets, cip_sequence_count,
                   udp_sequence_counter, nthreads, udp_in, tcp_out, udp_out, npkts,
                   after_close>>

\* recv_data = self.udp_socket.recv(1024) returns once the scanner has sent a
\* datagram, and data = CIP_IO_Reply(self.remote_connection_id,
\* self.cip_sequence_count, ...) is built; recv raises on a closed socket.
AdapterUdpRecv(t) ==
    /\ impl = "Adapter" /\ threads[t].pc = "recv"
    /\ \/ /\ udp_socket \in open_sockets /\ udp_in > 0
          /\ udp_in' = udp_in - 1
          /\ threads' = [threads EXCEPT ![t].pc = "send",
                           ![t].data = CIP_IO_Reply(remote_connection_id,
                                                    cip_sequence_count)]
       \/ /\ udp_socket \notin open_sockets
          /\ udp_in' = udp_in
          /\ SetPc(t, "except")
    /\ UNCHANGED <<impl, codec, tcp_in, assigned, main_pc, session_handle, connection_id, remote_connection_id,
                   udp_running, udp_socket, udp_thread, open_sockets, cip_sequence_count,
                   udp_sequence_counter, nthreads, tcp_out, udp_out, npkts,
                   after_close>>

\* A counter that restarts at 1 after 0x0FFFFFFF.
NextSeqFromOne(c) == IF c = EncapMask THEN 1 ELSE 1 + c

\* self.cip_sequence_count = (1 + self.cip_sequence_count) & 0xFFFFFFF
NextSeq(c) == (1 + c) % (EncapMask + 1)

\* self.udp_socket.sendto(data, ...): the packet leaves and the counter is
\* advanced, or sendto raises.
AdapterUdpSend(t) ==
    /\ impl = "Adapter" /\ threads[t].pc = "send"
    /\ \/ /\ udp_socket \in open_sockets /\ npkts < MaxPkts
          /\ Emit(t, threads[t].data)
          /\ cip_sequence_count' = NextSeq(cip_sequence_count)
          /\ threads' = [threads EXCEPT ![t].pc = "sleep", ![t].data = NoPacket]
       \/ /\ threads' = [threads EXCEPT ![t].pc = "except", ![t].data = NoPacket]
          /\ UNCHANGED <<udp_out, npkts, after_close, cip_sequence_count>>
    /\ UNCHANGED <<impl, codec, tcp_in, assigned, main_pc, session_handle, connection_id, remote_connection_id,
                   udp_running, udp_socket, udp_thread, open_sockets,
                   udp_sequence_counter, nthreads, udp_in, tcp_out>>

\* time.sleep(rpi), then the loop condition.
AdapterUdpSleep(t) ==
    /\ impl = "Adapter" /\ threads[t].pc = "sleep"
    /\ SetPc(t, IF udp_running THEN "recv" ELSE "done")
    /\ UNCHANGED <<impl, codec, tcp_in, assigned, main_pc, session_handle, connection_id, remote_connection_id,
                   udp_running, udp_socket, udp_thread, open_sockets, cip_sequence_count,
                   udp_sequence_counter, nthreads, udp_in, tcp_out, udp_out, npkts,
                   after_close>>

\* except Exception: self.stop_udp()
AdapterUdpExcept(t) ==
    /\ impl = "Adapter" /\ threads[t].pc = "except"
    /\ stop_udp
    /\ SetPc(t, "recheck")
    /\ UNCHANGED <<impl, codec, tcp_in, assigned, main_pc, session_handle, connection_id, remote_connection_id,
                   udp_socket, udp_thread, cip_sequence_count,
                   udp_sequence_counter, nthreads, udp_in, tcp_out, udp_out, npkts,
                   after_close>>

\* The scanner sends a datagram to the adapter's UDP port.
ScannerUdpDatagram ==
    /\ impl = "Adapter" /\ udp_socket \in open_sockets /\ udp_in < MaxUdpIn
    /\ udp_in' = udp_in + 1
    /\ UNCHANGED <<impl, codec, tcp_in, assigned, main_pc, session_handle, connection_id, remote_connection_id,
                   udp_running, udp_socket, udp_thread, open_sockets, cip_sequence_count,
                   udp_sequence_counter, threads, nthreads, tcp_out, udp_out, npkts,
                   after_close>>

\* Thread t alone runs its loop, undisturbed, from the counter value `from`
\* until the packet `last` has left: the packets with the counts from `from` up
\* to that of `last` have left, one after the other.
RunLog(t, last, from) ==
    [conn |-> nthreads, by |-> t,
     first |-> IF udp_out.conn = nthreads THEN udp_out.first ELSE from,
     prev |-> last.encap_seq - 1,
     last |-> last]

Alone(t) == \A u \in Tids \ {t} : threads[u].pc \in {"unborn", "done"}

\* Adapter._udp_sender, many rounds of the loop in one step: from the sleep
\* of one round to the sleep of the round that leaves the counter at
\* 0x0FFFFFFF (the scanner sending a datagram for every round).
AdapterUdpRun(t) ==
    /\ impl = "Adapter" /\ threads[t].pc = "sleep"
    /\ udp_running /\ udp_socket \in open_sockets /\ Alone(t)
    /\ cip_sequence_count < EncapMask - 2
    /\ cip_sequence_count' = EncapMask
    /\ udp_out' = RunLog(t, CIP_IO_Reply(remote_connection_id, EncapMask - 1),
                         cip_sequence_count)
    /\ after_close' = IF after_close = None THEN None ELSE 2
    /\ UNCHANGED <<impl, codec, tcp_in, assigned, main_pc, session_handle, connection_id, remote_connection_id,
                   udp_running, udp_socket, udp_thread, open_sockets,
                   udp_sequence_counter, threads, nthreads, udp_in, tcp_out, npkts>>

\* time.sleep(rpi) of Adapter._udp_sender, in microseconds.  rpi is the
\* argument of setup_udp, a number of seconds that handle_forward_open
\* computes as a field of the request / 1000000.0; threads[t].rpi holds that
\* field, the number of millionths of a second.
AdapterSleepMicros(rpi) == rpi

AdapterProducer ==
    \E t \in Tids :
        \/ AdapterUdpCheck(t) \/ AdapterUdpRecv(t) \/ AdapterUdpSend(t)
        \/ AdapterUdpSleep(t) \/ AdapterUdpExcept(t) \/ AdapterUdpRun(t)

(* ------------------------------------------- Adapter: the TCP session *)
\* Adapter.setup_udp(rpi): nothing if a producer is marked running; else a
\* new socket, the flag, and a new thread running _udp_sender(rpi).
setup_udp(rpi) ==
    IF udp_running
    THEN UNCHANGED <<udp_running, udp_socket, open_sockets, udp_thread, threads,
                     nthreads, udp_in>>
    ELSE /\ udp_socket' = nthreads + 1
         /\ open_sockets' = open_sockets \cup {nthreads + 1}
         /\ udp_running' = TRUE
         /\ udp_thread' = nthreads + 1
         /\ nthreads' = nthreads + 1
         /\ threads' = [threads EXCEPT ![nthreads + 1] =
                          [pc |-> "check", rpi |-> rpi, connection_id |-> None,
                           data |-> NoPacket, opened_with |-> remote_connection_id']]
         /\ udp_in' = 0

\* EthernetIP.handle_request, after the handler returned: the request's
\* header object is sent back with len, status and session_handle rewritten.
AdapterReplyHeader(q) ==
    Reply(q.hdr.cmd, session_handle', 0, q.hdr.sender_context, q.hdr.options, None, None)

\* 0x0004 -> EthernetIP.handle_list_services
AdapterListServices(q) ==
    /\ impl = "Adapter" /\ main_pc = "serving"
    /\ q.hdr.cmd = CMD_LIST_SERVICES
    /\ session_handle' = session_handle
    /\ tcp_out' = Outcome(q, "replied",
                          WithData(AdapterReplyHeader(q), AdapterListServicesData))
    /\ UNCHANGED <<impl, codec, tcp_in, assigned, main_pc, connection_id, remote_connection_id,
                   udp_running, udp_socket, udp_thread, open_sockets, cip_sequence_count,
                   udp_sequence_counter, threads, nthreads, udp_in, udp_out, npkts,
                   after_close>>

\* 0x0065 -> EthernetIP.handle_register_session
AdapterRegisterSession(q) ==
    /\ impl = "Adapter" /\ main_pc = "serving"
    /\ q.hdr.cmd = CMD_REGISTER_SESSION
    /\ session_handle < MaxRegister
    /\ session_handle' = session_handle + 1
    /\ tcp_out' = Outcome(q, "replied",
                          WithData(AdapterReplyHeader(q), RegisterSessionData))
    /\ assigned' = session_handle'
    /\ UNCHANGED <<impl, codec, tcp_in, main_pc, connection_id, remote_connection_id,
                   udp_running, udp_socket, udp_thread, open_sockets, cip_sequence_count,
                   udp_sequence_counter, threads, nthreads, udp_in, udp_out, npkts,
                   after_close>>

\* 0x0066 -> EthernetIP.handle_unregister_session: returns b'', which
\* handle_request sends under the header like any other response.
AdapterUnregisterSession(q) ==
    /\ impl = "Adapter" /\ main_pc = "serving"
    /\ q.hdr.cmd = CMD_UNREGISTER_SESSION
    /\ session_handle' = session_handle
    /\ tcp_out' = Outcome(q, "replied", AdapterReplyHeader(q))
    /\ UNCHANGED <<impl, codec, tcp_in, assigned, main_pc, connection_id, remote_connection_id,
                   udp_running, udp_socket, udp_thread, open_sockets, cip_sequence_count,
                   udp_sequence_counter, threads, nthreads, udp_in, udp_out, npkts,
                   after_close>>

\* 0x006F -> CIP_Handler.handle_send_rr_data -> handle_forward_open
AdapterForwardOpen(q) ==
    /\ impl = "Adapter" /\ main_pc = "serving"
    /\ q.hdr.cmd = CMD_SEND_RR_DATA /\ ~q.padded /\ q.service = SVC_FORWARD_OPEN
    /\ udp_running \/ nthreads < MaxThreads
    /\ LET fwd_open_req == AdapterForwardOpenRequest(q)
           fwd_open_resp == ForwardOpenResponse(O_T_CONNECTION_ID, fwd_open_req)
       IN  /\ connection_id' = fwd_open_resp.o_t_connection_id
           /\ remote_connection_id' = fwd_open_resp.t_o_connection_id
           /\ setup_udp(fwd_open_req.o_t_rpi)
           /\ session_handle' = session_handle
           /\ tcp_out' = Outcome(q, "replied",
                   WireReply(AdapterReplyHeader(q), q,
                             Send_RR_Data(<<NullAddressItem,
                                            UnconnectedDataItem(
                                                ForwardOpenResponseBytes(fwd_open_resp)),
                                            SocketAddressInfo(2, UDP_PORT, 0)>>)))
    /\ after_close' = None
    /\ UNCHANGED <<impl, codec, tcp_in, assigned, main_pc, cip_sequence_count, udp_sequence_counter,
                   udp_out, npkts>>

\* handle_forward_open when setup_udp cannot start the producer: with no
\* producer marked running, socket.socket(...) raises, or udp_socket is
\* assigned and bind raises.  The connection ids are stored by then; the
\* exception leaves handle_request like any other (AdapterHandlerRaises).
AdapterForwardOpenFails(q) ==
    /\ impl = "Adapter" /\ main_pc = "serving"
    /\ q.hdr.cmd = CMD_SEND_RR_DATA /\ ~q.padded /\ q.service = SVC_FORWARD_OPEN
    /\ ~udp_running
    /\ LET fwd_open_req == AdapterForwardOpenRequest(q)
           fwd_open_resp == ForwardOpenResponse(O_T_CONNECTION_ID, fwd_open_req)
       IN  /\ connection_id' = fwd_open_resp.o_t_connection_id
           /\ remote_connection_id' = fwd_open_resp.t_o_connection_id
    /\ \/ UNCHANGED <<udp_socket, open_sockets>>
       \/ /\ udp_socket' = nthreads + 1
          /\ open_sockets' = open_sockets \cup {nthreads + 1}
    /\ main_pc' = "closing"
    /\ tcp_out' = Outcome(q, "raised", NoReply)
    /\ UNCHANGED <<impl, codec, tcp_in, assigned, session_handle, udp_running, udp_thread,
                   cip_sequence_count, udp_sequence_counter, threads, nthreads, udp_in,
                   udp_out, npkts, after_close>>

\* 0x006F -> CIP_Handler.handle_send_rr_data -> handle_forward_close
AdapterForwardClose(q) ==
    /\ impl = "Adapter" /\ main_pc = "serving"
    /\ q.hdr.cmd = CMD_SEND_RR_DATA /\ ~q.padded /\ q.service = SVC_FORWARD_CLOSE
    /\ session_handle' = session_handle
    /\ tcp_out' = Outcome(q, "replied",
                          WireReply(AdapterReplyHeader(q), q,
                                    CIP_Message(SVC_FORWARD_CLOSE + REPLY_BIT, 0)))
    /\ after_close' = IF udp_running THEN 0 ELSE after_close
    /\ UNCHANGED <<impl, codec, tcp_in, assigned, main_pc, connection_id, remote_connection_id,
                   udp_running, udp_socket, udp_thread, open_sockets, cip_sequence_count,
                   udp_sequence_counter, threads, nthreads, udp_in, udp_out, npkts>>

\* The requests whose handling raises inside EthernetIP.handle_request:
\*  - a command outside eip_commands: unsupported_command reads the undefined
\*    name eip_header (NameError);
\*  - List Identity, List Interfaces, Send Unit Data, Read/Write Attribute
\*    Single: CIP_Message(service=...) is no parameter of CIP_Message.__init__
\*    (TypeError);
\*  - Send RR Data with a service outside rr_service_handlers:
\*    handle_send_rr_data returns None and len(None) raises (TypeError).
AdapterRaises(q) ==
    \/ q.hdr.cmd \in {CMD_UNKNOWN, CMD_LIST_IDENTITY, CMD_LIST_INTERFACES,
                      CMD_SEND_UNIT_DATA}
    \/ /\ q.hdr.cmd = CMD_SEND_RR_DATA
       /\ q.service \in {SVC_READ_ATTRIBUTE_SINGLE, SVC_WRITE_ATTRIBUTE_SINGLE,
                         SVC_UNKNOWN}

\* The exception leaves handle_request; Adapter.listen_for_requests logs it
\* and breaks out of its loop, start_server returns and main() calls close().
AdapterHandlerRaises(q) ==
    /\ impl = "Adapter" /\ main_pc = "serving"
    /\ ~q.padded /\ AdapterRaises(q)
    /\ main_pc' = "closing"
    /\ tcp_out' = Outcome(q, "raised", NoReply)
    /\ UNCHANGED <<impl, codec, tcp_in, assigned, session_handle, connection_id, remote_connection_id,
                   udp_running, udp_socket, udp_thread, open_sockets, cip_sequence_count,
                   udp_sequence_counter, threads, nthreads, udp_in, udp_out, npkts,
                   after_close>>

\* A close that also puts the sequence counter back to 1.
AdapterCloseResets ==
    /\ impl = "Adapter" /\ main_pc = "closing"
    /\ stop_udp
    /\ main_pc' = "closed"
    /\ cip_sequence_count' = 1
    /\ UNCHANGED <<impl, codec, tcp_in, assigned, session_handle, connection_id, remote_connection_id,
                   udp_socket, udp_thread,
                   udp_sequence_counter, threads, nthreads, udp_in, tcp_out, udp_out,
                   npkts, after_close>>

\* Adapter.close (main.py's finally clause)
AdapterClose ==
    /\ impl = "Adapter" /\ main_pc = "closing"
    /\ stop_udp
    /\ main_pc' = "closed"
    /\ UNCHANGED <<impl, codec, tcp_in, assigned, session_handle, connection_id, remote_connection_id,
                   udp_socket, udp_thread, cip_sequence_count,
                   udp_sequence_counter, threads, nthreads, udp_in, tcp_out, udp_out,
                   npkts, after_close>>

(* --------------------------------------------------- EIP_Adapter: UDP *)
\* EIP_Adapter._udp_sender: `while self.udp_running` on entry;
\* generate_udp_payload builds the packet from the thread's connection_id and
\* self.udp_sequence_counter and increments the counter.  The CIP sequence
\* count of the Connected Data Item is never assigned and stays 0.
generate_udp_payload(cid) == Packet(cid, udp_sequence_counter, 0)

EIPUdpGenerate(t) ==
    /\ udp_sequence_counter' = udp_sequence_counter + 1
    /\ threads' = [threads EXCEPT ![t].pc = "send",
                     ![t].data = generate_udp_payload(threads[t].connection_id)]

EIPUdpCheck(t) ==
    /\ impl = "EIP_Adapter" /\ threads[t].pc = "check"
    /\ IF udp_running
       THEN EIPUdpGenerate(t)
       ELSE SetPc(t, "done") /\ UNCHANGED udp_sequence_counter
    /\ UNCHANGED <<impl, codec, tcp_in, assigned, main_pc, session_handle, connection_id, remote_connection_id,
                   udp_running, udp_socket, udp_thread, open_sockets, cip_sequence_count,
                   nthreads, udp_in, tcp_out, udp_out, npkts, after_close>>

\* self.udp_socket.sendto(udp_packet, ...): the packet leaves, or sendto raises
\* (also when udp_socket is None or closed); the except clause clears
\* udp_running and re-raises, which ends the thread.
EIPUdpSend(t) ==
    /\ impl = "EIP_Adapter" /\ threads[t].pc = "send"
    /\ \/ /\ udp_socket \in open_sockets /\ npkts < MaxPkts
          /\ Emit(t, threads[t].data)
          /\ threads' = [threads EXCEPT ![t].pc = "sleep", ![t].data = NoPacket]
          /\ UNCHANGED udp_running
       \/ /\ threads' = [threads EXCEPT ![t].pc = "done", ![t].data = NoPacket]
          /\ udp_running' = FALSE
          /\ UNCHANGED <<udp_out, npkts, after_close>>
    /\ UNCHANGED <<impl, codec, tcp_in, assigned, main_pc, session_handle, connection_id, remote_connection_id,
                   udp_socket, udp_thread, open_sockets, cip_sequence_count,
                   udp_sequence_counter, nthreads, udp_in, tcp_out>>

\* time.sleep(rpi / 1000.0), then the loop condition and the next payload.
EIPUdpSleep(t) ==
    /\ impl = "EIP_Adapter" /\ threads[t].pc = "sleep"
    /\ IF udp_running
       THEN EIPUdpGenerate(t)
       ELSE SetPc(t, "done") /\ UNCHANGED udp_sequence_counter
    /\ UNCHANGED <<impl, codec, tcp_in, assigned, main_pc, session_handle, connection_id, remote_connection_id,
                   udp_running, udp_socket, udp_thread, open_sockets, cip_sequence_count,
                   nthreads, udp_in, tcp_out, udp_out, npkts, after_close>>

\* EIP_Adapter._udp_sender, many rounds of the loop in one step: from the
\* sleep of one round to the sleep of the round that leaves the counter at
\* 0x0FFFFFFF.
EIPUdpRun(t) ==
    /\ impl = "EIP_Adapter" /\ threads[t].pc = "sleep"
    /\ udp_running /\ udp_socket \in open_sockets /\ Alone(t)
    /\ udp_sequence_counter < EncapMask - 2
    /\ udp_sequence_counter' = EncapMask
    /\ udp_out' = RunLog(t, Packet(threads[t].connection_id, EncapMask - 1, 0),
                         udp_sequence_counter)
    /\ after_close' = IF after_close = None THEN None ELSE 2
    /\ UNCHANGED <<impl, codec, tcp_in, assigned, main_pc, session_handle, connection_id, remote_connection_id,
                   udp_running, udp_socket, udp_thread, open_sockets,
                   cip_sequence_count, threads, nthreads, udp_in, tcp_out, npkts>>

\* time.sleep(rpi / 1000.0) of EIP_Adapter._udp_sender, in microseconds: rpi
\* is taken for a number of milliseconds.
EIPSleepMicros(rpi) == rpi * 1000

EIPProducer ==
    \E t \in Tids : EIPUdpCheck(t) \/ EIPUdpSend(t) \/ EIPUdpSleep(t) \/ EIPUdpRun(t)

(* --------------------------------------- EIP_Adapter: the TCP session *)
\* EIP_Adapter.setup_udp_connection(rpi, connection_id)
setup_udp_connection(rpi, cid) ==
    IF udp_running
    THEN UNCHANGED <<udp_running, udp_socket, open_sockets, udp_thread, threads,
                     nthreads>>
    ELSE /\ udp_running' = TRUE
         /\ udp_socket' = nthreads + 1
         /\ open_sockets' = open_sockets \cup {nthreads + 1}
         /\ udp_thread' = nthreads + 1
         /\ nthreads' = nthreads + 1
         /\ threads' = [threads EXCEPT ![nthreads + 1] =
                          [pc |-> "check", rpi |-> rpi, connection_id |-> cid,
                           data |-> NoPacket, opened_with |-> cid]]

\* 0x0004 -> EIP_Adapter.handle_list_services: a new header with
\* session_handle, sender_context and options 0.
EIPListServices(q) ==
    /\ impl = "EIP_Adapter" /\ main_pc = "serving"
    /\ q.hdr.cmd = CMD_LIST_SERVICES
    /\ tcp_out' = Outcome(q, "replied",
                          WithData(Reply(CMD_LIST_SERVICES, 0, 0, 0, 0, None, None),
                                   EIPListServicesData))
    /\ UNCHANGED <<impl, codec, tcp_in, assigned, main_pc, session_handle, connection_id, remote_connection_id,
                   udp_running, udp_socket, udp_thread, open_sockets, cip_sequence_count,
                   udp_sequence_counter, threads, nthreads, udp_in, udp_out, npkts,
                   after_close>>

\* 0x0063 -> EIP_Adapter.handle_list_identity: 64 zero bytes are sent, which
\* read as a header whose every field is 0.
EIPListIdentity(q) ==
    /\ impl = "EIP_Adapter" /\ main_pc = "serving"
    /\ q.hdr.cmd = CMD_LIST_IDENTITY
    /\ tcp_out' = Outcome(q, "replied",
                          WithData(Reply(0, 0, 0, 0, 0, None, None), Zeros(40)))
    /\ UNCHANGED <<impl, codec, tcp_in, assigned, main_pc, session_handle, connection_id, remote_connection_id,
                   udp_running, udp_socket, udp_thread, open_sockets, cip_sequence_count,
                   udp_sequence_counter, threads, nthreads, udp_in, udp_out, npkts,
                   after_close>>

\* 0x0065 -> EIP_Adapter.handle_register_session
EIPRegisterSession(q) ==
    /\ impl = "EIP_Adapter" /\ main_pc = "serving"
    /\ q.hdr.cmd = CMD_REGISTER_SESSION
    /\ session_handle < MaxRegister
    /\ session_handle' = session_handle + 1
    /\ tcp_out' = Outcome(q, "replied",
                          WithData(Reply(CMD_REGISTER_SESSION, session_handle', 0,
                                         q.hdr.sender_context, 0, None, None),
                                   RegisterSessionData))
    /\ assigned' = session_handle'
    /\ UNCHANGED <<impl, codec, tcp_in, main_pc, connection_id, remote_connection_id,
                   udp_running, udp_socket, udp_thread, open_sockets, cip_sequence_count,
                   udp_sequence_counter, threads, nthreads, udp_in, udp_out, npkts,
                   after_close>>

\* 0x0066 -> EIP_Adapter.handle_unregister_session
EIPUnregisterSession(q) ==
    /\ impl = "EIP_Adapter" /\ main_pc = "serving"
    /\ q.hdr.cmd = CMD_UNREGISTER_SESSION
    /\ session_handle' = 0
    /\ tcp_out' = Outcome(q, "silent", NoReply)
    /\ UNCHANGED <<impl, codec, tcp_in, assigned, main_pc, connection_id, remote_connection_id,
                   udp_running, udp_socket, udp_thread, open_sockets, cip_sequence_count,
                   udp_sequence_counter, threads, nthreads, udp_in, udp_out, npkts,
                   after_close>>

\* A command outside eip_commands: parse_request logs a warning.
EIPUnsupportedCommand(q) ==
    /\ impl = "EIP_Adapter" /\ main_pc = "serving"
    /\ q.hdr.cmd = CMD_UNKNOWN
    /\ tcp_out' = Outcome(q, "silent", NoReply)
    /\ UNCHANGED <<impl, codec, tcp_in, assigned, main_pc, session_handle, connection_id, remote_connection_id,
                   udp_running, udp_socket, udp_thread, open_sockets, cip_sequence_count,
                   udp_sequence_counter, threads, nthreads, udp_in, udp_out, npkts,
                   after_close>>

\* 0x006F -> EIP_Adapter.handle_send_rr_data: command_response under a new
\* header that copies session_handle and sender_context of the request.
EIPSendRRReply(q) ==
    WireReply(Reply(CMD_SEND_RR_DATA, q.hdr.session_handle, 0, q.hdr.sender_context, 0,
                    None, None),
              q, EIPCommandResponse(q))

\* ... -> EIP_Adapter.handle_forward_open
EIPForwardOpen(q) ==
    /\ impl = "EIP_Adapter" /\ main_pc = "serving"
    /\ q.hdr.cmd = CMD_SEND_RR_DATA /\ q.padded /\ q.service = SVC_FORWARD_OPEN
    /\ udp_running \/ nthreads < MaxThreads
    /\ LET forward_open_request == EIPForwardOpenRequest(q)
       IN  setup_udp_connection(forward_open_request.t_o_rpi,
                                forward_open_request.t_o_connection_id)
    /\ tcp_out' = Outcome(q, "replied", EIPSendRRReply(q))
    /\ after_close' = None
    /\ UNCHANGED <<impl, codec, tcp_in, assigned, main_pc, session_handle, connection_id, remote_connection_id,
                   cip_sequence_count, udp_sequence_counter, udp_in, udp_out, npkts>>

\* handle_forward_open when setup_udp_connection cannot start the producer:
\* udp_running is set, socket.socket(...) raises, and the exception leaves
\* serve() (EIPHandlerRaises).
EIPForwardOpenFails(q) ==
    /\ impl = "EIP_Adapter" /\ main_pc = "serving"
    /\ q.hdr.cmd = CMD_SEND_RR_DATA /\ q.padded /\ q.service = SVC_FORWARD_OPEN
    /\ ~udp_running
    /\ udp_running' = TRUE
    /\ main_pc' = "closing"
    /\ tcp_out' = Outcome(q, "raised", NoReply)
    /\ UNCHANGED <<impl, codec, tcp_in, assigned, session_handle, connection_id, remote_connection_id,
                   udp_socket, udp_thread, open_sockets, cip_sequence_count,
                   udp_sequence_counter, threads, nthreads, udp_in, udp_out, npkts,
                   after_close>>

\* ... -> handle_forward_close
EIPForwardClose(q) ==
    /\ impl = "EIP_Adapter" /\ main_pc = "serving"
    /\ q.hdr.cmd = CMD_SEND_RR_DATA /\ q.padded /\ q.service = SVC_FORWARD_CLOSE
    /\ tcp_out' = Outcome(q, "replied", EIPSendRRReply(q))
    /\ after_close' = IF udp_running THEN 0 ELSE after_close
    /\ UNCHANGED <<impl, codec, tcp_in, assigned, main_pc, session_handle, connection_id, remote_connection_id,
                   udp_running, udp_socket, udp_thread, open_sockets, cip_sequence_count,
                   udp_sequence_counter, threads, nthreads, udp_in, udp_out, npkts>>

\* ... -> handle_read_attribute_single, handle_write_attribute_single,
\* unsupported_service
EIPOtherService(q) ==
    /\ impl = "EIP_Adapter" /\ main_pc = "serving"
    /\ q.hdr.cmd = CMD_SEND_RR_DATA /\ q.padded
    /\ q.service \in {SVC_READ_ATTRIBUTE_SINGLE, SVC_WRITE_ATTRIBUTE_SINGLE, SVC_UNKNOWN}
    /\ tcp_out' = Outcome(q, "replied", EIPSendRRReply(q))
    /\ UNCHANGED <<impl, codec, tcp_in, assigned, main_pc, session_handle, connection_id, remote_connection_id,
                   udp_running, udp_socket, udp_thread, open_sockets, cip_sequence_count,
                   udp_sequence_counter, threads, nthreads, udp_in, udp_out, npkts,
                   after_close>>

\* The requests whose handling raises out of EIP_Adapter.serve:
\*  - List Interfaces and Send Unit Data (NotImplementedError);
\*  - Send RR Data whose payload is shorter than Send_RR_Data_Request
\*    (from_buffer_copy raises ValueError).
EIPRaises(q) ==
    \/ q.hdr.cmd \in {CMD_LIST_INTERFACES, CMD_SEND_UNIT_DATA}
    \/ q.hdr.cmd = CMD_SEND_RR_DATA /\ ~q.padded

\* serve() has no try: the exception leaves the with block and __exit__ runs.
EIPHandlerRaises(q) ==
    /\ impl = "EIP_Adapter" /\ main_pc = "serving"
    /\ EIPRaises(q)
    /\ main_pc' = "closing"
    /\ tcp_out' = Outcome(q, "raised", NoReply)
    /\ UNCHANGED <<impl, codec, tcp_in, assigned, session_handle, connection_id, remote_connection_id,
                   udp_running, udp_socket, udp_thread, open_sockets, cip_sequence_count,
                   udp_sequence_counter, threads, nthreads, udp_in, udp_out, npkts,
                   after_close>>

\* EIP_Adapter.__exit__ -> stop_udp_connection: the flag is cleared ...
EIPStopUdpConnection ==
    /\ impl = "EIP_Adapter" /\ main_pc = "closing"
    /\ udp_running' = FALSE
    /\ main_pc' = "joining"
    /\ UNCHANGED <<impl, codec, tcp_in, assigned, session_handle, connection_id, remote_connection_id,
                   udp_socket, udp_thread, open_sockets, cip_sequence_count,
                   udp_sequence_counter, threads, nthreads, udp_in, tcp_out, udp_out,
                   npkts, after_close>>

\* ... the thread is joined, and the sockets are closed.
EIPJoinAndClose ==
    /\ impl = "EIP_Adapter" /\ main_pc = "joining"
    /\ IF udp_thread = None THEN TRUE ELSE threads[udp_thread].pc = "done"
    /\ open_sockets' = IF udp_socket # None THEN open_sockets \ {udp_socket}
                       ELSE open_sockets
    /\ udp_thread' = None
    /\ udp_socket' = None
    /\ main_pc' = "closed"
    /\ UNCHANGED <<impl, codec, tcp_in, assigned, session_handle, connection_id, remote_connection_id,
                   udp_running, cip_sequence_count,
                   udp_sequence_counter, threads, nthreads, udp_in, tcp_out, udp_out,
                   npkts, after_close>>

(* ------------------------------------------------------ specifications *)
\* The requests of the cyclic specification: under one header, the Forward
\* Opens, a Forward Close, and a request of each kind that raises.
CyclicRequests ==
    {q \in Requests :
        /\ q.hdr.session_handle = 1 /\ q.hdr.sender_context = 7 /\ q.hdr.options = 1
        /\ \/ q.service \in {SVC_FORWARD_OPEN, SVC_FORWARD_CLOSE}
           \/ q.hdr.cmd \in {CMD_SEND_UNIT_DATA} }

AdapterHandlers(q) ==
    \/ AdapterListServices(q) \/ AdapterRegisterSession(q)
    \/ AdapterUnregisterSession(q) \/ AdapterForwardOpen(q)
    \/ AdapterForwardOpenFails(q)
    \/ AdapterForwardClose(q) \/ AdapterHandlerRaises(q)

EIPHandlers(q) ==
    \/ EIPListServices(q) \/ EIPListIdentity(q) \/ EIPRegisterSession(q)
    \/ EIPUnregisterSession(q) \/ EIPUnsupportedCommand(q) \/ EIPForwardOpen(q)
    \/ EIPForwardOpenFails(q)
    \/ EIPForwardClose(q) \/ EIPOtherService(q) \/ EIPHandlerRaises(q)

\* Adapter.listen_for_requests, one turn of `while True` on a connection the
\* scanner has closed: recv returns b'', `if data:` is false, nothing is
\* raised and the loop goes round.
AdapterRecvEof ==
    /\ impl = "Adapter" /\ main_pc \in {"serving", "eof"}
    /\ main_pc' = "eof"
    /\ UNCHANGED <<impl, codec, tcp_in, assigned, session_handle, connection_id, remote_connection_id,
                   udp_running, udp_socket, udp_thread, open_sockets,
                   cip_sequence_count, udp_sequence_counter, threads, nthreads,
                   udp_in, tcp_out, udp_out, npkts, after_close>>

\* EIP_Adapter.serve, one turn of `while self.server_socket` on a connection
\* the scanner has closed: receive_data returns b'' and `if data:` is false.
EIPRecvEof ==
    /\ impl = "EIP_Adapter" /\ main_pc \in {"serving", "eof"}
    /\ main_pc' = "eof"
    /\ UNCHANGED <<impl, codec, tcp_in, assigned, session_handle, connection_id, remote_connection_id,
                   udp_running, udp_socket, udp_thread, open_sockets,
                   cip_sequence_count, udp_sequence_counter, threads, nthreads,
                   udp_in, tcp_out, udp_out, npkts, after_close>>

TcpEof == AdapterRecvEof \/ EIPRecvEof

Teardown == AdapterClose \/ EIPStopUdpConnection \/ EIPJoinAndClose

\* The cyclic path: the producers under the requests that start, stop or
\* outlive them.
CyclicSession ==
    \E q \in CyclicRequests :
        \/ AdapterForwardOpen(q) \/ AdapterForwardClose(q) \/ AdapterHandlerRaises(q)
        \/ EIPForwardOpen(q) \/ EIPForwardClose(q) \/ EIPHandlerRaises(q)

Next ==
    \/ AdapterProducer \/ ScannerUdpDatagram \/ EIPProducer
    \/ CyclicSession \/ Teardown

Spec == Init /\ [][Next]_vars

\* The explicit path: every request under every header, the producers not
\* scheduled.
SessionNext ==
    \/ \E q \in Requests : AdapterHandlers(q) \/ EIPHandlers(q)
    \/ Teardown

SessionSpec == Init /\ [][SessionNext]_vars

\* The life of one TCP connection: every request under one sender context and
\* one options word, the scanner closing the connection, and the teardown.
\* The session thread is the main thread of the process and blocks nowhere but
\* in recv: whenever it has a step to take it takes one.
LiveRequests ==
    {q \in Requests : q.hdr.sender_context = 7 /\ q.hdr.options = 1}

LiveSessionNext ==
    \/ \E q \in LiveRequests : AdapterHandlers(q) \/ EIPHandlers(q)
    \/ TcpEof
    \/ Teardown

LiveSessionSpec == Init /\ [][LiveSessionNext]_vars /\ WF_vars(LiveSessionNext)

\* The life of the producers to their end: the single rounds of _udp_sender
\* under the requests of the cyclic path and the teardown.  A thread that can
\* take a step takes one, with one exception: a recv that no datagram ends.
\* stop_udp closes the socket under the producer without waking it; a recv
\* that is entered on the closed socket raises, one that was entered before
\* the close and has nothing to read may raise or go on waiting.
ProducerRound(t) ==
    \/ AdapterUdpCheck(t) \/ AdapterUdpRecv(t) \/ AdapterUdpSend(t)
    \/ AdapterUdpSleep(t) \/ AdapterUdpExcept(t)
    \/ EIPUdpCheck(t) \/ EIPUdpSend(t) \/ EIPUdpSleep(t)

Scheduled(t) ==
    ProducerRound(t) /\ (threads[t].pc = "recv" => udp_in > 0)

\* One Forward Open, the Forward Close and the request that ends the session.
StopRequests ==
    {q \in CyclicRequests :
        \/ q.service = SVC_FORWARD_OPEN /\ q.t_o_connection_id = 11
        \/ q.service = SVC_FORWARD_CLOSE
        \/ q.hdr.cmd = CMD_SEND_UNIT_DATA}

LiveProducerNext ==
    \/ \E t \in Tids : ProducerRound(t)
    \/ ScannerUdpDatagram
    \/ \E q \in StopRequests :
          \/ AdapterForwardOpen(q) \/ AdapterForwardClose(q) \/ AdapterHandlerRaises(q)
          \/ EIPForwardOpen(q) \/ EIPForwardClose(q) \/ EIPHandlerRaises(q)
    \/ Teardown

LiveProducerSpec ==
    Init /\ [][LiveProducerNext]_vars /\ \A t \in Tids : WF_vars(Scheduled(t))

\* The header codec alone: handle_request / parse_request lay EIP_Header over
\* the first 24 bytes of what recv returned, and bytes(eip_header) followed by
\* the payload is what goes back on the wire.
CodecInit ==
    /\ Started
    /\ codec \in {Codec("received", f, NoHeader, <<>>) : f \in Frames}
    /\ tcp_in = NoStream

CodecDecode ==
    /\ codec.pc = "received"
    /\ codec' = [codec EXCEPT !.pc = "decoded",
                              !.eip_header = EIP_Header_from_buffer_copy(codec.data)]
    /\ UNCHANGED <<impl, main_pc, session_handle, connection_id, remote_connection_id,
                   udp_running, udp_socket, udp_thread, open_sockets,
                   cip_sequence_count, udp_sequence_counter, threads, nthreads,
                   udp_in, tcp_out, udp_out, npkts, assigned, after_close, tcp_in>>

CodecEncode ==
    /\ codec.pc = "decoded"
    /\ codec' = [codec EXCEPT !.pc = "encoded",
                              !.out = EIP_Header_bytes(codec.eip_header)
                                      \o SubSeq(codec.data, 25, Len(codec.data))]
    /\ UNCHANGED <<impl, main_pc, session_handle, connection_id, remote_connection_id,
                   udp_running, udp_socket, udp_thread, open_sockets,
                   cip_sequence_count, udp_sequence_counter, threads, nthreads,
                   udp_in, tcp_out, udp_out, npkts, assigned, after_close, tcp_in>>

CodecNext == CodecDecode \/ CodecEncode

CodecSpec == CodecInit /\ [][CodecNext]_vars

\* The read loops under TCP's delivery: the scanner writes one Register
\* Session frame (header and the four bytes protocol version, option flags),
\* and recv(1024) returns any first part of what has not been read yet.
RegisterFrames ==
    { <<101, 0>> \o <<4, 0>> \o h \o st \o x \o o \o <<1, 0, 0, 0>> :
        h \in U32Bytes, st \in StatusBytes, x \in ContextBytes, o \in OptionBytes }

FramingInit ==
    /\ Started
    /\ codec = NoCodec
    /\ tcp_in \in {Stream(f, f, <<>>, 0) : f \in RegisterFrames}

\* The request the handlers see behind a parsed header that carries no CIP
\* message.
FramedRequest(h) ==
    [hdr |-> Header(h.cmd, h.session_handle, h.sender_context, h.options),
     padded |-> FALSE, service |-> 0,
     t_o_connection_id |-> 0, o_t_connection_id |-> 0, o_t_rpi |-> 0, t_o_rpi |-> 0,
     connection_serial_number |-> 0, originator_vendor_id |-> 0,
     originator_serial_number |-> 0]

\* data = self.client_socket.recv(1024) returns the first n bytes waiting.
recv(n) ==
    tcp_in' = Stream(tcp_in.frame,
                     SubSeq(tcp_in.bytes, n + 1, Len(tcp_in.bytes)),
                     SubSeq(tcp_in.bytes, 1, n),
                     tcp_in.reads + 1)

\* Adapter.listen_for_requests, one turn: recv, and handle_request on what it
\* returned.  EIP_Header.from_buffer_copy(data[:24]) raises ValueError on
\* fewer than 24 bytes, which ends the loop; else the command is dispatched
\* (here 0x0065 -> handle_register_session) and the reply sent.
AdapterListen(n) ==
    /\ impl = "Adapter" /\ main_pc = "serving"
    /\ n \in 1..Len(tcp_in.bytes)
    /\ recv(n)
    /\ IF Len(tcp_in'.data) < 24
       THEN /\ main_pc' = "closing"
            /\ tcp_out' = Outcome(NoRequest, "raised", NoReply)
            /\ UNCHANGED <<session_handle, assigned>>
       ELSE LET eip_header == EIP_Header_from_buffer_copy(tcp_in'.data)
                q == FramedRequest(eip_header)
            IN  /\ eip_header.cmd = CMD_REGISTER_SESSION
                /\ session_handle' = session_handle + 1
                /\ tcp_out' = Outcome(q, "replied",
                                      WithData(AdapterReplyHeader(q), RegisterSessionData))
                /\ assigned' = session_handle'
                /\ main_pc' = main_pc
    /\ UNCHANGED <<impl, codec, connection_id, remote_connection_id,
                   udp_running, udp_socket, udp_thread, open_sockets, cip_sequence_count,
                   udp_sequence_counter, threads, nthreads, udp_in, udp_out, npkts,
                   after_close>>

\* EIP_Adapter.serve, one turn: receive_data, and parse_request on what it
\* returned; the ValueError of from_buffer_copy leaves serve.
EIPListen(n) ==
    /\ impl = "EIP_Adapter" /\ main_pc = "serving"
    /\ n \in 1..Len(tcp_in.bytes)
    /\ recv(n)
    /\ IF Len(tcp_in'.data) < 24
       THEN /\ main_pc' = "closing"
            /\ tcp_out' = Outcome(NoRequest, "raised", NoReply)
            /\ UNCHANGED <<session_handle, assigned>>
       ELSE LET eip_header == EIP_Header_from_buffer_copy(tcp_in'.data)
                q == FramedRequest(eip_header)
            IN  /\ eip_header.cmd = CMD_REGISTER_SESSION
                /\ session_handle' = session_handle + 1
                /\ tcp_out' = Outcome(q, "replied",
                                      WithData(Reply(CMD_REGISTER_SESSION, session_handle', 0,
                                                     q.hdr.sender_context, 0, None, None),
                                               RegisterSessionData))
                /\ assigned' = session_handle'
                /\ main_pc' = main_pc
    /\ UNCHANGED <<impl, codec, connection_id, remote_connection_id,
                   udp_running, udp_socket, udp_thread, open_sockets, cip_sequence_count,
                   udp_sequence_counter, threads, nthreads, udp_in, udp_out, npkts,
                   after_close>>

FramingNext ==
    \/ \E n \in 1..MaxRead : AdapterListen(n) \/ EIPListen(n)
    \/ Teardown

FramingSpec == FramingInit /\ [][FramingNext]_vars

(* -------------------------------------------------------------- claims *)
Emitted == udp_out.by # None
Replied == tcp_out.outcome = "replied"

\* C1: within one connection, each cyclic packet carries the encap sequence
\* count of the packet before it, plus one, masked to 28 bits.
C1_EncapSeqConsecutive ==
    udp_out.prev # None =>
        udp_out.last.encap_seq = (udp_out.prev + 1) % (EncapMask + 1)

\* C2: the first cyclic packet of every connection carries encap_seq 1.
C2_FirstPacketCarriesOne ==
    udp_out.first # None => udp_out.first = 1

\* C3: every cyclic packet carries the T->O connection id of the Forward Open
\* that started the producer which sent it.
C3_PacketCarriesNegotiatedId ==
    Emitted => udp_out.last.connection_id = threads[udp_out.by].opened_with

\* C4: in every cyclic packet the CIP sequence count is the encap sequence
\* count masked to 16 bits.
C4_CipSeqIsLow16OfEncapSeq ==
    Emitted => udp_out.last.cip_seq = udp_out.last.encap_seq % (CipSeqMask + 1)

C6_ForwardCloseStopsProducer ==
    after_close # None => after_close <= 1

\* C7: an active producer waits for nothing but the UDP send and the RPI
\* sleep: it is never blocked until the scanner sends a UDP datagram.
C7_ProducerNeverWaitsForScanner ==
    \A t \in Tids :
        ~(/\ threads[t].pc = "recv"
          /\ udp_running /\ udp_socket \in open_sockets
          /\ udp_in = 0)

\* C8: every ENIP reply carries the sender context of its request.
C8_SenderContextEchoed ==
    Replied => tcp_out.reply.sender_context = tcp_out.req.hdr.sender_context

\* C9: every ENIP reply to a request other than Register Session carries the
\* session handle of its request.
C9_SessionHandleEchoed ==
    (Replied /\ tcp_out.req.hdr.cmd # CMD_REGISTER_SESSION)
        => tcp_out.reply.session_handle = tcp_out.req.hdr.session_handle

\* C10: once Register Session has assigned a handle, a Send RR Data (here one
\* carrying a Forward Open) whose header carries another handle is answered
\* with ENIP status 0x0064 and is not dispatched: the reply holds no CIP reply.
C10_WrongHandleRejected ==
    (/\ assigned # None
     /\ tcp_out.req.hdr.cmd = CMD_SEND_RR_DATA
     /\ tcp_out.req.service = SVC_FORWARD_OPEN
     /\ tcp_out.req.hdr.session_handle # assigned)
        => (/\ Replied
            /\ tcp_out.reply.status = 100
            /\ tcp_out.reply.cip_service = None)

\* Some request has been handled.
Handled == tcp_out.outcome # "none"

\* C11: before any Register Session has been processed, a Send RR Data that
\* carries a Forward Open is answered with ENIP status 0x0001 or dropped, and
\* no connection is created and no cyclic producer is started.
C11_IdleRejectsForwardOpen ==
    (/\ assigned = None
     /\ Handled
     /\ tcp_out.req.hdr.cmd = CMD_SEND_RR_DATA
     /\ tcp_out.req.service = SVC_FORWARD_OPEN)
        => (/\ Replied => tcp_out.reply.status = 1
            /\ nthreads = 0
            /\ ~udp_running)

\* C12: the reply to the first Register Session of a fresh adapter has
\* command 0x0065 and session handle 1, and no Register Session reply carries
\* session handle 0.
C12_FirstRegisterGetsHandleOne ==
    [][(/\ tcp_out' # tcp_out
        /\ tcp_out'.req.hdr.cmd = CMD_REGISTER_SESSION
        /\ tcp_out'.outcome = "replied")
           => (/\ tcp_out'.reply.cmd = CMD_REGISTER_SESSION
               /\ tcp_out'.reply.session_handle # 0
               /\ assigned = None => tcp_out'.reply.session_handle = 1)]_vars

\* C13: on Unregister Session nothing is sent in response, and an active
\* cyclic producer is stopped.
C13_UnregisterSilentAndStops ==
    (Handled /\ tcp_out.req.hdr.cmd = CMD_UNREGISTER_SESSION)
        => (/\ tcp_out.outcome = "silent"
            /\ ~udp_running)

\* C14: handling an unsupported ENIP command or an unsupported CIP service
\* leaves the session loop running, and the session handle, the connection
\* and its producer unchanged.
C14_UnsupportedIsNotFatal ==
    [][(/\ tcp_out' # tcp_out
        /\ \/ tcp_out'.req.hdr.cmd = CMD_UNKNOWN
           \/ /\ tcp_out'.req.hdr.cmd = CMD_SEND_RR_DATA
              /\ tcp_out'.req.service = SVC_UNKNOWN
              /\ impl = "EIP_Adapter" => tcp_out'.req.padded)
           => (/\ main_pc' = "serving"
               /\ UNCHANGED <<session_handle, udp_running, udp_thread, udp_socket,
                              threads, connection_id>>)]_vars

\* A Send RR Data request has been answered.
RRReplied == Replied /\ tcp_out.req.hdr.cmd = CMD_SEND_RR_DATA

\* C15: a Send RR Data whose CIP service is none of 0x54, 0x4E, 0x0E, 0x10 is
\* answered with a CIP reply of service (request service | 0x80) and general
\* status 0x08 inside the item list [NullAddress, UnconnectedData].
C15_UnsupportedServiceAnswered ==
    (/\ Handled
     /\ tcp_out.req.hdr.cmd = CMD_SEND_RR_DATA
     /\ tcp_out.req.service = SVC_UNKNOWN
     /\ impl = "EIP_Adapter" => tcp_out.req.padded)
        => (/\ Replied
            /\ tcp_out.reply.items = <<"NullAddress", "UnconnectedData">>
            /\ tcp_out.reply.cip_service = SVC_UNKNOWN + REPLY_BIT
            /\ tcp_out.reply.general_status = 8)

\* C16: the service byte of every CIP reply to an explicit request with
\* service s is s | 0x80.
C16_ReplyServiceHasReplyBit ==
    (RRReplied /\ tcp_out.reply.cip_service # None)
        => tcp_out.reply.cip_service = (tcp_out.req.service % REPLY_BIT) + REPLY_BIT

\* C17: a Send Unit Data command is answered with an ENIP reply of status
\* 0x0001, and the session continues.
C17_SendUnitDataRejected ==
    (Handled /\ tcp_out.req.hdr.cmd = CMD_SEND_UNIT_DATA)
        => (/\ Replied
            /\ tcp_out.reply.status = 1
            /\ main_pc = "serving")

\* C18: a Forward Open reply holds exactly the items NullAddress,
\* UnconnectedData, SocketAddressInfo in that order, and every other explicit
\* reply exactly NullAddress, UnconnectedData.
C18_ItemListByService ==
    RRReplied
        => tcp_out.reply.items =
               IF tcp_out.req.service = SVC_FORWARD_OPEN
               THEN <<"NullAddress", "UnconnectedData", "SocketAddressInfo">>
               ELSE <<"NullAddress", "UnconnectedData">>

\* C19: a Forward Open reply echoes the request's T->O connection id,
\* connection serial number, originator vendor id and originator serial
\* number, and grants both requested RPIs unchanged.
C19_ForwardOpenEchoes ==
    (RRReplied /\ tcp_out.req.service = SVC_FORWARD_OPEN)
        => (/\ tcp_out.reply.fo.t_o_connection_id = tcp_out.req.t_o_connection_id
            /\ tcp_out.reply.fo.connection_serial_number
                   = tcp_out.req.connection_serial_number
            /\ tcp_out.reply.fo.originator_vendor_id = tcp_out.req.originator_vendor_id
            /\ tcp_out.reply.fo.originator_serial_number
                   = tcp_out.req.originator_serial_number
            /\ tcp_out.reply.fo.o_t_rpi = tcp_out.req.o_t_rpi
            /\ tcp_out.reply.fo.t_o_rpi = tcp_out.req.t_o_rpi)

\* C20: the O->T connection id of a Forward Open reply is not the one of the
\* request, is not zero, and is not the one granted to the connection that is
\* active when the request is handled.
C20_FreshOtConnectionId ==
    [][(/\ tcp_out' # tcp_out
        /\ tcp_out'.outcome = "replied"
        /\ tcp_out'.req.hdr.cmd = CMD_SEND_RR_DATA
        /\ tcp_out'.req.service = SVC_FORWARD_OPEN)
           => (/\ tcp_out'.reply.fo.o_t_connection_id # 0
               /\ tcp_out'.reply.fo.o_t_connection_id # tcp_out'.req.o_t_connection_id
               /\ (/\ udp_running
                   /\ RRReplied
                   /\ tcp_out.req.service = SVC_FORWARD_OPEN)
                      => tcp_out'.reply.fo.o_t_connection_id
                             # tcp_out.reply.fo.o_t_connection_id)]_vars

\* The step being taken answers a Send RR Data that carries a Forward Open.
ForwardOpenAnswered ==
    /\ tcp_out' # tcp_out
    /\ tcp_out'.outcome = "replied"
    /\ tcp_out'.req.hdr.cmd = CMD_SEND_RR_DATA
    /\ tcp_out'.req.service = SVC_FORWARD_OPEN

\* C21: a Forward Open handled while a connection is active is answered with
\* CIP general status 0x01, and the stored connection ids, the running
\* producer and its RPI are the same after the request as before it.
C21_SecondForwardOpenRefused ==
    [][(udp_running /\ ForwardOpenAnswered)
           => (/\ tcp_out'.reply.general_status = 1
               /\ UNCHANGED <<connection_id, remote_connection_id, udp_running,
                              udp_thread, threads>>)]_vars

\* The interval a producer thread sleeps between two sends, in microseconds.
SleepMicros(thread) ==
    IF impl = "Adapter" THEN AdapterSleepMicros(thread.rpi)
    ELSE EIPSleepMicros(thread.rpi)

\* C23: the interval a producer sleeps between two sends is the T->O RPI of
\* the Forward Open request that created it, whether or not the O->T RPI of
\* that request is the same.
C23_SleepsForToRpi ==
    [][(ForwardOpenAnswered /\ nthreads' = nthreads + 1)
           => SleepMicros(threads'[nthreads']) = tcp_out'.req.t_o_rpi]_vars

\* C24: the options field of every ENIP reply is 0.
C24_ReplyOptionsZero ==
    Replied => tcp_out.reply.options = 0

\* C30: once the session's sockets have been closed, every producer thread
\* has terminated.
C30_ProducerEndsBeforeSocketsClose ==
    main_pc = "closed" => \A t \in Tids : threads[t].pc \in {"unborn", "done"}

\* C22: when the producer cannot be started during a Forward Open (no
\* producer was marked running and no thread is started), the Forward Open is
\* answered with CIP general status 0x01, the connection ids keep their
\* values, udp_running stays false and the session continues.
C22_FailedStartRefused ==
    [][(/\ tcp_out' # tcp_out
        /\ tcp_out'.req.hdr.cmd = CMD_SEND_RR_DATA
        /\ tcp_out'.req.service = SVC_FORWARD_OPEN
        /\ impl = "EIP_Adapter" => tcp_out'.req.padded
        /\ ~udp_running
        /\ nthreads' = nthreads)
           => (/\ tcp_out'.outcome = "replied"
               /\ tcp_out'.reply.general_status = 1
               /\ UNCHANGED <<connection_id, remote_connection_id, udp_running>>
               /\ main_pc' = "serving")]_vars

\* C27: the payload of every List Services reply is item count 1, item type
\* 0x0100, (item length 20,) encapsulation version 1, capability flags 0x0120
\* as bytes 20 01, and "Communications" NUL-padded to 16 bytes, under ENIP
\* command 0x0004, in every state of the session.
C27_ListServicesReplyFixed ==
    (Replied /\ tcp_out.req.hdr.cmd = CMD_LIST_SERVICES)
        => LET d == tcp_out.reply.command_data
           IN  /\ tcp_out.reply.cmd = CMD_LIST_SERVICES
               /\ Len(d) = 26
               /\ U16At(d, 0) = 1
               /\ U16At(d, 2) = 256
               /\ U16At(d, 6) = 1
               /\ SubSeq(d, 9, 10) = <<32, 1>>
               /\ SubSeq(d, 11, 26) = Communications \o <<0, 0>>

\* A List Services request answered after a session was registered.
C27_ListServicesAfterRegister ==
    /\ Replied
    /\ tcp_out.req.hdr.cmd = CMD_LIST_SERVICES
    /\ impl = "EIP_Adapter"
    /\ session_handle = MaxRegister

\* The values the setters and getters of SocketAddressInfo are applied to:
\* every 16-bit value, and 32-bit values around the byte boundaries.
SinValues16 == 0..65535
SinValues32 == {0, 1, 127, 128, 255, 256, 2222, 65535, 65536, 16777215, 16777216,
                2130706433, 2147483647}
SinRoundTrip ==
    /\ \A v \in SinValues16 : sin_get(U16BE(v)) = v
    /\ \A v \in SinValues32 : sin_get(U32BE(v)) = v

\* C28: the Socket Address Info item of a Forward Open reply has type 0x8000
\* and length 16 and carries family 2, the adapter's UDP port and address 0
\* big-endian (port 2222 as 08 AE), then 8 zero bytes; and each getter of
\* SocketAddressInfo returns the value its setter was given.
C28_SocketAddressInfoOnWire ==
    /\ (RRReplied /\ tcp_out.req.service = SVC_FORWARD_OPEN
                  /\ tcp_out.reply.sockaddr # <<>>)
           => LET sa == tcp_out.reply.sockaddr
              IN  /\ Len(sa) = 20
                  /\ U16At(sa, 0) = 32768
                  /\ U16At(sa, 2) = 16
                  /\ SubSeq(sa, 5, 6) = <<0, 2>>
                  /\ SubSeq(sa, 7, 8) = <<8, 174>>
                  /\ sin_get(SubSeq(sa, 7, 8)) = UDP_PORT
                  /\ SubSeq(sa, 9, 12) = <<0, 0, 0, 0>>
                  /\ SubSeq(sa, 13, 20) = <<0, 0, 0, 0, 0, 0, 0, 0>>
    /\ SinRoundTrip

\* A Forward Open reply that carries a Socket Address Info item.
C28_ForwardOpenReplyWithSocketAddress ==
    /\ RRReplied
    /\ tcp_out.req.service = SVC_FORWARD_OPEN
    /\ tcp_out.reply.sockaddr # <<>>

\* Producer t is in the except clause of its loop, or has left it and not yet
\* read udp_running again; the step being taken raises an I/O error in t.
Failed(t) == threads[t].pc \in {"except", "recheck"}
UdpError(t) ==
    /\ threads[t].pc \in {"recv", "send"}
    /\ threads'[t].pc = IF impl = "Adapter" THEN "except" ELSE "done"
    /\ threads'[t].data = NoPacket
    /\ udp_out' = udp_out

\* C26: an I/O error on the UDP socket ends the producer and nothing else: the
\* producer that met it sends no more, and the step that raises it and the
\* steps of its except clause leave the TCP session open and its session
\* handle as it was.
C26_UdpErrorEndsProducerOnly ==
    [][\A t \in Tids :
          /\ Failed(t) => threads'[t].pc \in {"except", "recheck", "done"}
          /\ (UdpError(t) \/ (Failed(t) /\ threads'[t] # threads[t]))
                => UNCHANGED <<main_pc, session_handle, assigned>>]_vars

\* C25: once the scanner has closed the TCP connection the read loop ends:
\* the session is torn down, with the producer stopped and the sockets closed.
C25_EofTearsSessionDown ==
    (main_pc = "eof") ~> (main_pc = "closed" /\ ~udp_running)

\* C29: for every frame whose length field counts its payload, the bytes of
\* the decoded header followed by the payload are the frame itself, and the
\* six header fields read from those bytes are the six fields decoded.
C29_HeaderRoundTrip ==
    codec.pc = "encoded" =>
        /\ codec.out = codec.data
        /\ EIP_Header_from_buffer_copy(codec.out) = codec.eip_header
        /\ codec.eip_header.len = Len(codec.data) - 24

\* A frame with all eight sender context bytes and a payload has gone through
\* the codec.
C29_FrameReencoded ==
    /\ codec.pc = "encoded"
    /\ codec.eip_header.sender_context.hi # 0
    /\ codec.eip_header.len = 258
    /\ codec.eip_header.cmd = 65535

\* A producer thread is inside the body of its loop: in recv, in sendto or in
\* the sleep.
InSendLoop(thread) == thread.pc \in {"recv", "send", "sleep"}

\* C31: at most one producer thread is in its send loop at any time; a
\* producer that has met an error or read a cleared udp_running never goes
\* back into the loop, and the stop_udp of its error path closes no socket
\* that a later setup_udp made.
C31_SingleProducer ==
    [][/\ Cardinality({t \in Tids : InSendLoop(threads'[t])}) <= 1
       /\ \A t \in Tids :
            /\ (Failed(t) \/ threads[t].pc = "done") => ~InSendLoop(threads'[t])
            /\ (threads[t].pc = "except" /\ threads'[t].pc = "recheck")
                  => \A sock \in open_sockets \ open_sockets' : sock <= t]_vars

\* stop_udp has run and no Forward Open has come after it: the flag is
\* cleared and the UDP socket closed.  Every producer thread has ended.
UdpStopped == nthreads > 0 /\ ~udp_running /\ udp_socket \notin open_sockets
AllEnded == \A t \in Tids : threads[t].pc \in {"unborn", "done"}

\* C32: once stop_udp has cleared the flag and closed the UDP socket, every
\* producer thread leaves its loop and ends, wherever it was, unless a later
\* Forward Open starts the producer again; and a thread that has left its loop
\* sends nothing more.
C32_StoppedProducerEnds ==
    /\ UdpStopped ~> (AllEnded \/ udp_running)
    /\ [][\A t \in Tids : threads[t].pc = "done" => threads'[t].pc = "done"]_vars

\* C33: whatever parts TCP delivers a request in, only the whole frame is
\* handed to the dispatcher, and it is answered with one reply: what the last
\* recv handed on is the frame the scanner wrote, it took part in one dispatch
\* and that dispatch sent a reply.
C33_FramingIndependentOfDelivery ==
    tcp_in.reads > 0 =>
        /\ tcp_in.data = tcp_in.frame
        /\ tcp_in.reads = 1
        /\ Replied

\* C34: the reply written for a request is the reply to that request: it is
\* the one send of the step that handled it, and its ENIP command code is the
\* command code of the request.
C34_ReplyAnswersItsRequest ==
    Replied => tcp_out.reply.cmd = tcp_out.req.hdr.cmd

\* C35: once a producer has been started, every step of the TCP thread (a
\* request handled, whatever its command, or a step of the teardown) leaves
\* the sequence counter of either draft as it was.
C35_CounterOwnedByProducer ==
    [][(nthreads > 0 /\ (tcp_out' # tcp_out \/ main_pc' # main_pc))
          => UNCHANGED <<cip_sequence_count, udp_sequence_counter>>]_vars

\* The producer has sent packets and advanced the counter, a Forward Close
\* has been answered, a request has raised and the session has been closed.
C35_SessionActsAfterPackets ==
    /\ nthreads > 0
    /\ main_pc = "closed"
    /\ tcp_out.outcome = "raised"
    /\ after_close # None
    /\ (IF impl = "Adapter" THEN cip_sequence_count ELSE udp_sequence_counter) > 1

\* C36: while the session is registered (a Register Session has assigned a
\* handle and the adapter still holds it), no step but an Unregister Session
\* changes the handle the adapter holds, and that handle is not 0.
C36_HandleStableWhileRegistered ==
    [][(/\ assigned # None
        /\ session_handle = assigned
        /\ tcp_out'.req.hdr.cmd # CMD_UNREGISTER_SESSION)
           => (/\ session_handle' = session_handle
               /\ session_handle' # 0)]_vars

\* C37: in every reachable state the encapsulation sequence counter of either
\* draft lies in 0..0x0FFFFFFF.
C37_CounterFitsIn28Bits ==
    /\ cip_sequence_count \in 0..EncapMask
    /\ udp_sequence_counter \in 0..EncapMask

====
